---- MODULE Spec2Model ----
(***************************************************************************)
(* SlidingWindowRateLimiter (task-01.py): a per-user sliding-window rate   *)
(* limiter.  user_messages maps a user id to a deque of the timestamps of  *)
(* the messages that were let through; every public method first drops the *)
(* timestamps that left the window.                                        *)
(*                                                                         *)
(* Time is the reading of time.time(), modelled in whole ticks; the clock  *)
(* never goes back.  record_message reads the clock twice (once inside     *)
(* can_send_message, once before the append), so it is modelled as two     *)
(* steps between which the clock may advance.                              *)
(***************************************************************************)
EXTENDS Integers, Sequences, FiniteSets

VARIABLES
    window_size,    \* self.window_size
    max_requests,   \* self.max_requests
    user_messages,  \* self.user_messages: user id -> deque of timestamps
    now,            \* what time.time() returns
    pc,             \* per caller: "idle", or "append" inside record_message
    call,           \* per caller: the record_message call in flight
    last,           \* the call that has just returned at this clock reading: its
                    \* arguments, the clock reading t it decided on, the mapping
                    \* before it, and its result (ret or wait)
    admitted        \* history: the timestamps record_message appended (see Tick)

vars == <<window_size, max_requests, user_messages, now, pc, call, last, admitted>>

\* ---------------------------------------------------------------- bounds
\* MaxTime: the clock stops advancing there.  MaxAdmitted: a cap on the history
\* kept for a user; no record_message is started for a user beyond it (with one
\* caller the limiter stays below it by itself).
MaxTime == 5
MaxAdmitted == 4

Keys == {"u1", "u2"}
Callers == {"c1", "c2"}
Main == "c1"

\* The defaults of the constructor.
DefaultWindowSize == 10
DefaultMaxRequests == 1

\* The policies <<window_size, max_requests>> a limiter is built with.  The
\* constructor takes any integers: it does not validate them.
Policies ==
    { <<-1, DefaultMaxRequests>>, <<0, 0>>, <<0, DefaultMaxRequests>>,
      <<2, 0>>, <<2, DefaultMaxRequests>>, <<2, 2>>, <<3, 2>>,
      <<DefaultWindowSize, DefaultMaxRequests>>, <<DefaultWindowSize, 3>> }

\* ---------------------------------------------------------------- helpers
EmptyMap == [k \in {} |-> <<>>]

Max(a, b) == IF a >= b THEN a ELSE b

MapRemove(um, k) == [j \in (DOMAIN um) \ {k} |-> um[j]]

MapPut(um, k, q) == [j \in (DOMAIN um) \cup {k} |-> IF j = k THEN q ELSE um[j]]

\* The deque of a user, empty when the user has no entry.
Held(um, k) == IF k \in DOMAIN um THEN um[k] ELSE <<>>

NoCall == [key |-> "", t |-> 0, before |-> EmptyMap]

NoLast == [op |-> "none", key |-> "", t |-> 0, ret |-> FALSE, wait |-> 0,
           before |-> EmptyMap]

\* ---------------------------------------------------------------- the methods
\* Variant: the loop tests > instead of >=, so a timestamp exactly window_size old stays.
RECURSIVE pop_expired_strict(_, _)
pop_expired_strict(q, current_time) ==
    IF q # <<>> /\ current_time - Head(q) > window_size
    THEN pop_expired_strict(Tail(q), current_time)
    ELSE q

\* The while loop of _cleanup_window: popleft while the head is out of the window.
RECURSIVE pop_expired(_, _)
pop_expired(q, current_time) ==
    IF q # <<>> /\ current_time - Head(q) >= window_size
    THEN pop_expired(Tail(q), current_time)
    ELSE q

\* Variant: the loop is an if, so at most one timestamp is dropped per call.
cleanup_window_once(um, user_id, current_time) ==
    IF user_id \notin DOMAIN um
    THEN um
    ELSE LET q0 == um[user_id]
             q  == IF q0 # <<>> /\ current_time - Head(q0) >= window_size
                   THEN Tail(q0) ELSE q0
         IN  IF q = <<>> THEN MapRemove(um, user_id) ELSE MapPut(um, user_id, q)

\* Variant: the del is not under its if, so the user's entry always goes.
cleanup_window_always_delete(um, user_id, current_time) ==
    MapRemove(um, user_id)

\* Variant: the cleanup sweeps every user, not only user_id.
cleanup_window_all_users(um, user_id, current_time) ==
    LET live == {j \in DOMAIN um : pop_expired(um[j], current_time) # <<>>}
    IN  [j \in live |-> pop_expired(um[j], current_time)]

cleanup_window(um, user_id, current_time) ==
    IF user_id \notin DOMAIN um
    THEN um
    ELSE LET q == pop_expired(um[user_id], current_time)
         IN  IF q = <<>> THEN MapRemove(um, user_id) ELSE MapPut(um, user_id, q)

\* Variant: the test reads "in ... and" for "not in ... or": an absent user is refused.
can_send_decision_absent_refused(m, user_id, current_time) ==
    IF user_id \in DOMAIN m /\ Len(m[user_id]) < max_requests
    THEN TRUE
    ELSE user_id \in DOMAIN m /\ current_time - Head(m[user_id]) >= window_size

\* Variant: the count is compared with <= instead of <.
can_send_decision_le(m, user_id, current_time) ==
    IF user_id \notin DOMAIN m \/ Len(m[user_id]) <= max_requests
    THEN TRUE
    ELSE current_time - Head(m[user_id]) >= window_size

\* The decision of can_send_message on the mapping it has just cleaned.
can_send_decision(m, user_id, current_time) ==
    IF user_id \notin DOMAIN m \/ Len(m[user_id]) < max_requests
    THEN TRUE
    ELSE current_time - Head(m[user_id]) >= window_size

can_send_message(um, user_id, current_time) ==
    can_send_decision(cleanup_window(um, user_id, current_time), user_id, current_time)

\* Variant: the subtraction is written the wrong way round and returned as it is.
time_to_wait_reversed(m, user_id, current_time) ==
    IF user_id \notin DOMAIN m \/ Len(m[user_id]) < max_requests
    THEN 0
    ELSE current_time - (Head(m[user_id]) + window_size)

\* Variant: the wait is computed from the newest message instead of the oldest.
time_to_wait_newest(m, user_id, current_time) ==
    IF user_id \notin DOMAIN m \/ Len(m[user_id]) < max_requests
    THEN 0
    ELSE Max(0, (m[user_id][Len(m[user_id])] + window_size) - current_time)

\* The value of time_until_next_allowed on the mapping it has just cleaned.
time_to_wait(m, user_id, current_time) ==
    IF user_id \notin DOMAIN m \/ Len(m[user_id]) < max_requests
    THEN 0
    ELSE Max(0, (Head(m[user_id]) + window_size) - current_time)

time_until_next_allowed(um, user_id, current_time) ==
    time_to_wait(cleanup_window(um, user_id, current_time), user_id, current_time)

\* Variant: appendleft instead of append.
append_message_left(um, user_id, current_time) ==
    MapPut(um, user_id, <<current_time>> \o Held(um, user_id))

\* Variant: the deque is created anew on every call (the if is missing).
append_message_reset(um, user_id, current_time) ==
    MapPut(um, user_id, <<current_time>>)

\* Lines 46-52 of record_message: create the deque if needed, append the timestamp.
append_message(um, user_id, current_time) ==
    MapPut(um, user_id, Append(Held(um, user_id), current_time))

\* ---------------------------------------------------------------- the state machine
TypeOK ==
    /\ <<window_size, max_requests>> \in Policies
    /\ now \in 0..MaxTime
    /\ DOMAIN user_messages \subseteq Keys
    /\ pc \in [Callers -> {"idle", "append"}]

Init ==
    /\ \E p \in Policies : window_size = p[1] /\ max_requests = p[2]
    /\ user_messages = EmptyMap
    /\ now = 0
    /\ pc = [c \in Callers |-> "idle"]
    /\ call = [c \in Callers |-> NoCall]
    /\ last = NoLast
    /\ admitted = [k \in Keys |-> <<>>]

\* The admissions that can still share a window of length window_size with an
\* admission made at current_time or later.  An admission t with
\* current_time - t >= window_size is in no such window: the history drops it.
StillInAWindow(h, current_time) ==
    SelectSeq(h, LAMBDA t : current_time - t < window_size)

\* time.time() moves on.  No call has just returned at the new reading.
Tick ==
    /\ now < MaxTime
    /\ now' = now + 1
    /\ last' = NoLast
    /\ admitted' = [k \in Keys |-> StillInAWindow(admitted[k], now + 1)]
    /\ UNCHANGED <<window_size, max_requests, user_messages, pc, call>>

CanSendMessage(c, k) ==
    /\ pc[c] = "idle"
    /\ user_messages' = cleanup_window(user_messages, k, now)
    /\ last' = [op |-> "can_send", key |-> k, t |-> now,
                ret |-> can_send_message(user_messages, k, now), wait |-> 0,
                before |-> user_messages]
    /\ UNCHANGED <<window_size, max_requests, now, pc, call, admitted>>

TimeUntilNextAllowed(c, k) ==
    /\ pc[c] = "idle"
    /\ user_messages' = cleanup_window(user_messages, k, now)
    /\ last' = [op |-> "time_until", key |-> k, t |-> now, ret |-> FALSE,
                wait |-> time_until_next_allowed(user_messages, k, now),
                before |-> user_messages]
    /\ UNCHANGED <<window_size, max_requests, now, pc, call, admitted>>

\* record_message up to the return of can_send_message (lines 43-44).
RecordCheck(c, k) ==
    /\ pc[c] = "idle"
    /\ Len(admitted[k]) < MaxAdmitted
    /\ user_messages' = cleanup_window(user_messages, k, now)
    /\ IF can_send_message(user_messages, k, now)
       THEN /\ pc' = [pc EXCEPT ![c] = "append"]
            /\ call' = [call EXCEPT ![c] = [key |-> k, t |-> now, before |-> user_messages]]
            /\ last' = NoLast
       ELSE /\ last' = [op |-> "record", key |-> k, t |-> now, ret |-> FALSE, wait |-> 0,
                        before |-> user_messages]
            /\ UNCHANGED <<pc, call>>
    /\ UNCHANGED <<window_size, max_requests, now, admitted>>

\* record_message from the second clock reading to the return (lines 46-53).
\* last.t is the reading can_send_message decided on; the appended timestamp is now.
RecordAppend(c) ==
    /\ pc[c] = "append"
    /\ user_messages' = append_message(user_messages, call[c].key, now)
    /\ admitted' = [admitted EXCEPT ![call[c].key] = StillInAWindow(Append(@, now), now)]
    /\ last' = [op |-> "record", key |-> call[c].key, t |-> call[c].t, ret |-> TRUE,
                wait |-> 0, before |-> call[c].before]
    /\ pc' = [pc EXCEPT ![c] = "idle"]
    /\ call' = [call EXCEPT ![c] = NoCall]
    /\ UNCHANGED <<window_size, max_requests, now>>

\* One caller: the calls follow one another.
Next ==
    \/ Tick
    \/ \E k \in Keys : CanSendMessage(Main, k)
    \/ \E k \in Keys : TimeUntilNextAllowed(Main, k)
    \/ \E k \in Keys : RecordCheck(Main, k)
    \/ RecordAppend(Main)

Spec == Init /\ [][Next]_vars

\* Several callers record messages on one limiter; nothing in the class
\* synchronises them, so a caller may run between the two steps of another.
NextConc ==
    \/ Tick
    \/ \E c \in Callers, k \in Keys : RecordCheck(c, k)
    \/ \E c \in Callers : RecordAppend(c)

\* The limiters that let one message through per window (the default max_requests).
InitConc == Init /\ window_size > 0 /\ max_requests = DefaultMaxRequests

SpecConc == InitConc /\ [][NextConc]_vars

\* ---------------------------------------------------------------- vocabulary of the properties
\* The policy the documentation allows.
ValidPolicy == window_size > 0 /\ max_requests >= 1

\* The timestamps of q still inside the window at time t, in their order.
Unexpired(q, t) == SelectSeq(q, LAMBDA x : t - x < window_size)

\* How many of the admissions h fall in the half-open interval [a, a + window_size).
InInterval(h, a) == Cardinality({i \in DOMAIN h : a <= h[i] /\ h[i] < a + window_size})

\* The deque of the user of the call that has just returned, before and after it.
Before == Held(last.before, last.key)
After == Held(user_messages, last.key)

\* What the call kept of the deque it found: record_message's own timestamp aside.
Kept == IF last.op = "record" /\ last.ret THEN SubSeq(After, 1, Len(After) - 1) ELSE After

\* The clock readings from now on at which what the methods test for user k
\* can change: now and the next reading, and for every timestamp k holds the
\* readings at which it is window_size - 1, window_size and window_size + 1 old.
\* (A timestamp a call has just dropped was window_size old at now already.)
LaterTimes(k) ==
    {now, now + 1} \cup
    { t \in { Held(user_messages, k)[i] + window_size + d :
                 i \in DOMAIN Held(user_messages, k), d \in {-1, 0, 1} } : t > now }

\* ---------------------------------------------------------------- C1
\* C1: under a valid policy, for every user and every half-open interval of
\* length window_size, at most max_requests admitted timestamps lie in it.
C1_BoundProperty ==
    ValidPolicy =>
        \A k \in Keys : \A a \in (0 - window_size)..MaxTime :
            InInterval(admitted[k], a) <= max_requests

\* A window is full with timestamps taken at different times and a further
\* record_message has just been refused.
C1_Witness ==
    /\ ValidPolicy
    /\ last.op = "record" /\ ~last.ret
    /\ Len(admitted[last.key]) = max_requests
    /\ max_requests = 3
    /\ admitted[last.key][1] < admitted[last.key][3]

\* ---------------------------------------------------------------- C2
C2_Step ==
    /\ last'.op = "record" =>
          /\ last'.ret = can_send_message(last'.before, last'.key, last'.t)
          /\ last'.ret =>
                user_messages' =
                    MapPut(last'.before, last'.key,
                           Append(Unexpired(Held(last'.before, last'.key), last'.t), now'))
    /\ \A k \in Keys :
          Len(Held(user_messages', k)) > Len(Held(user_messages, k)) =>
              /\ last'.op = "record" /\ last'.ret /\ last'.key = k
              /\ Len(Held(user_messages', k)) = Len(Held(user_messages, k)) + 1

\* C2: record_message returns what can_send_message returns on the same mapping
\* at the same time; when that is true the user's deque becomes its unexpired
\* timestamps followed by the current time (a new deque for an absent user);
\* and a deque grows only in an admitting record_message, by one.
C2_RecordAppendsOnce == [][C2_Step]_vars

\* The third admission of the scenario window 10 / max 3: records at 0, 1, 2.
C2_Witness ==
    /\ window_size = 10 /\ max_requests = 3
    /\ last.op = "record" /\ last.ret
    /\ last.before = MapPut(EmptyMap, last.key, <<0, 1>>)
    /\ user_messages = MapPut(EmptyMap, last.key, <<0, 1, 2>>)

\* ---------------------------------------------------------------- C3
\* C3: a record_message that returns false leaves the whole mapping as it was.
C3_RejectedRecordNoMutation ==
    (last.op = "record" /\ ~last.ret) => user_messages = last.before

\* A refusal while another user holds a timestamp that has already expired.
C3_Witness ==
    /\ last.op = "record" /\ ~last.ret
    /\ \E k \in DOMAIN user_messages :
          k # last.key /\ now - Head(user_messages[k]) >= window_size

\* ---------------------------------------------------------------- C4
\* C4: when the user holds max_requests timestamps and the oldest is exactly
\* window_size old, can_send_message and record_message return true and keep
\* none of the timestamps that old; when all max_requests are inside the window
\* they return false.
C4_BoundaryRelease ==
    (/\ last.op \in {"can_send", "record"}
     /\ last.key \in DOMAIN last.before
     /\ Len(Before) = max_requests) =>
        /\ last.t - Head(Before) = window_size =>
              /\ last.ret
              /\ \A i \in DOMAIN Kept : last.t - Kept[i] < window_size
        /\ (\A i \in DOMAIN Before : last.t - Before[i] < window_size) => ~last.ret

\* A full deque whose oldest entry is exactly window_size old, met by an
\* admitted record_message.
C4_Witness ==
    /\ ValidPolicy
    /\ last.op = "record" /\ last.ret
    /\ last.key \in DOMAIN last.before
    /\ Len(Before) = max_requests
    /\ last.t - Head(Before) = window_size

\* ---------------------------------------------------------------- C5
\* C5: time_until_next_allowed returns 0 when fewer than max_requests
\* timestamps are inside the window (or none), else the oldest one inside the
\* window + window_size - now, never below 0; window 10 / max 1 with a record
\* at 0 gives 5 at t = 5, window 10 / max 3 with records at 0, 1, 2 gives 7 at 3.
C5_TimeUntilNextAllowed ==
    last.op = "time_until" =>
        /\ LET s == Unexpired(Before, last.t)
           IN  last.wait = IF s = <<>> \/ Len(s) < max_requests
                           THEN 0
                           ELSE Max(0, Head(s) + window_size - last.t)
        /\ (window_size = 10 /\ max_requests = 1 /\ Before = <<0>> /\ last.t = 5)
              => last.wait = 5
        /\ (window_size = 10 /\ max_requests = 3 /\ Before = <<0, 1, 2>> /\ last.t = 3)
              => last.wait = 7

C5_Witness ==
    /\ window_size = 10 /\ max_requests = 3
    /\ last.op = "time_until" /\ last.t = 3
    /\ Before = <<0, 1, 2>>
    /\ last.wait = 7

\* ---------------------------------------------------------------- C6
\* C6: the timestamp an admitted record_message stores is the clock reading on
\* which its admissibility was decided (one reading per call).
C6_OneClockReading ==
    (last.op = "record" /\ last.ret) => After[Len(After)] = last.t

\* ---------------------------------------------------------------- C7
\* C7: with concurrent callers of record_message, a user never holds more than
\* max_requests timestamps inside one window.
C7_AtomicRecord ==
    ValidPolicy =>
        \A k \in Keys : Len(Unexpired(Held(user_messages, k), now)) <= max_requests

\* ---------------------------------------------------------------- C8
\* C8: no limiter with window_size <= 0 or max_requests <= 0 is usable: none
\* answers a call, and none ever lets a message through.
C8_InvalidPolicyRejected ==
    (window_size <= 0 \/ max_requests <= 0) =>
        /\ last.op = "none"
        /\ \A c \in Callers : pc[c] = "idle"
        /\ user_messages = EmptyMap

\* ---------------------------------------------------------------- C9
\* C9: after can_send_message, at every later time and for every user,
\* can_send_message, time_until_next_allowed and the user's cleaned deque (hence
\* record_message too) are what they would be had the call not been made, and
\* the timestamps inside the window are the same as before the call.
C9_IdempotentRead ==
    last.op = "can_send" =>
        /\ \A k \in Keys :
              Unexpired(Held(user_messages, k), now) = Unexpired(Held(last.before, k), now)
        /\ \A k \in Keys : \A t \in LaterTimes(k) :
              /\ can_send_message(user_messages, k, t) = can_send_message(last.before, k, t)
              /\ time_until_next_allowed(user_messages, k, t)
                    = time_until_next_allowed(last.before, k, t)
              /\ Held(cleanup_window(user_messages, k, t), k)
                    = Held(cleanup_window(last.before, k, t), k)

\* A can_send_message that dropped an expired timestamp while an unexpired one
\* of the same user stayed.
C9_Witness ==
    /\ last.op = "can_send"
    /\ last.key \in DOMAIN user_messages
    /\ Len(After) < Len(Before)

\* ---------------------------------------------------------------- C10
\* C10: when the user's timestamps are all at least window_size old, after
\* can_send_message or time_until_next_allowed the user has no entry, and after
\* record_message the entry holds only the new timestamp; the mapping is the
\* one the same call leaves for a user never seen.
C10_IdleCleanup ==
    (/\ last.op # "none"
     /\ last.key \in DOMAIN last.before
     /\ \A i \in DOMAIN Before : last.t - Before[i] >= window_size) =>
        IF last.op = "record"
        THEN /\ last.ret
             /\ user_messages = MapPut(MapRemove(last.before, last.key), last.key, <<now>>)
        ELSE /\ user_messages = MapRemove(last.before, last.key)
             /\ last.op = "can_send" => last.ret
             /\ last.op = "time_until" => last.wait = 0

\* An idle user with several expired timestamps records a message.
C10_Witness ==
    /\ ValidPolicy
    /\ last.op = "record"
    /\ last.key \in DOMAIN last.before
    /\ Len(Before) >= 2
    /\ \A i \in DOMAIN Before : last.t - Before[i] >= window_size
    /\ user_messages[last.key] = <<now>>

\* ---------------------------------------------------------------- C11
\* C11: between calls no user is mapped to an empty deque, and after a call on
\* user k at time now, k has an entry exactly when one of the timestamps
\* recorded for k is less than window_size old.
C11_MappingInvariant ==
    /\ (\A c \in Callers : pc[c] = "idle") =>
          \A k \in DOMAIN user_messages : user_messages[k] # <<>>
    /\ last.op # "none" =>
          (last.key \in DOMAIN user_messages
              <=> \E i \in DOMAIN admitted[last.key] :
                      now - admitted[last.key][i] < window_size)

\* The limiters the documentation allows do keep it.
MappingInvariantUnderValidPolicy == ValidPolicy => C11_MappingInvariant

\* ---------------------------------------------------------------- C12
\* The mapping with the entries of every user but k removed.
OnlyKey(um, k) == [j \in (DOMAIN um) \cap {k} |-> um[j]]

\* C12: a call on user k leaves the entry of every other user as it was, and
\* its result and k's new deque are those the call gives when k's deque is the
\* only one in the mapping.
C12_KeyIndependence ==
    last.op # "none" =>
        /\ \A j \in Keys \ {last.key} :
              /\ j \in DOMAIN user_messages <=> j \in DOMAIN last.before
              /\ Held(user_messages, j) = Held(last.before, j)
        /\ last.op \in {"can_send", "record"} =>
              last.ret = can_send_message(OnlyKey(last.before, last.key), last.key, last.t)
        /\ last.op = "time_until" =>
              last.wait = time_until_next_allowed(OnlyKey(last.before, last.key),
                                                  last.key, last.t)
        /\ Kept = Held(cleanup_window(OnlyKey(last.before, last.key), last.key, last.t),
                       last.key)

\* A record_message admitted for one user while the other user's window is
\* full and holds a timestamp that has expired since.
C12_Witness ==
    /\ ValidPolicy
    /\ last.op = "record" /\ last.ret
    /\ \E j \in DOMAIN user_messages :
          /\ j # last.key
          /\ Len(user_messages[j]) = max_requests
          /\ now - Head(user_messages[j]) >= window_size

\* ---------------------------------------------------------------- C13
\* C13: time_until_next_allowed never returns a negative value, for any user at
\* the current or any later clock reading.
C13_NonNegativeWait ==
    /\ last.op = "time_until" => last.wait >= 0
    /\ \A k \in Keys : \A t \in LaterTimes(k) :
          time_until_next_allowed(user_messages, k, t) >= 0

\* A positive wait has just been returned for a full window.
C13_Witness ==
    /\ last.op = "time_until"
    /\ last.wait > 0
    /\ Len(After) = max_requests

\* ---------------------------------------------------------------- C14
\* C14: for a user with no entry can_send_message returns true and
\* time_until_next_allowed returns 0, both leaving the mapping as it was, and
\* record_message returns true and leaves the one new timestamp.
C14_NeverSeenKey ==
    (last.op # "none" /\ last.key \notin DOMAIN last.before) =>
        /\ last.op = "can_send" => last.ret /\ user_messages = last.before
        /\ last.op = "time_until" => last.wait = 0 /\ user_messages = last.before
        /\ last.op = "record" =>
              last.ret /\ user_messages = MapPut(last.before, last.key, <<now>>)

\* time_until_next_allowed has just answered for a user with no entry while
\* another user has one.
C14_Witness ==
    /\ last.op = "time_until"
    /\ last.key \notin DOMAIN last.before
    /\ last.before # EmptyMap

\* ---------------------------------------------------------------- C15
\* C15: the cleanup of a user's deque at the current or any later clock reading
\* leaves exactly its timestamps less than window_size old, in their order;
\* the calls that have just returned kept exactly those.
C15_EvictionCorrect ==
    /\ last.op # "none" => Kept = Unexpired(Before, last.t)
    /\ \A k \in Keys : \A t \in LaterTimes(k) :
          Held(cleanup_window(user_messages, k, t), k)
              = Unexpired(Held(user_messages, k), t)

\* A cleanup dropped a timestamp exactly window_size old and kept a newer one.
C15_Witness ==
    /\ last.op \in {"can_send", "time_until"}
    /\ Len(After) >= 1
    /\ Len(Before) > Len(After)
    /\ last.t - Head(Before) = window_size

\* ---------------------------------------------------------------- C16
\* C16: every deque is in non-decreasing order, oldest first.
C16_Sorted ==
    \A k \in DOMAIN user_messages :
        \A i, j \in DOMAIN user_messages[k] :
            i < j => user_messages[k][i] <= user_messages[k][j]

\* A deque of three timestamps, not all equal.
C16_Witness ==
    \E k \in DOMAIN user_messages :
        /\ Len(user_messages[k]) = 3
        /\ user_messages[k][1] < user_messages[k][3]

\* ---------------------------------------------------------------- C17
\* C17: for every user at the current and every later clock reading,
\* time_until_next_allowed returns 0 exactly when can_send_message returns true.
C17_WaitAgreesWithCanSend ==
    \A k \in Keys : \A t \in LaterTimes(k) :
        (time_until_next_allowed(user_messages, k, t) = 0)
            <=> can_send_message(user_messages, k, t)

\* can_send_message has just refused a user for whom the wait is positive.
C17_Witness ==
    /\ last.op = "can_send" /\ ~last.ret
    /\ time_until_next_allowed(user_messages, last.key, now) > 0

\* ---------------------------------------------------------------- C18
\* C18: when time_until_next_allowed returns d for a user at time now, then, the
\* user's deque being left as it is, can_send_message (hence record_message)
\* returns true for that user at every clock reading >= now + d.
C18_WaitIsSufficient ==
    /\ last.op = "time_until" =>
          \A t \in LaterTimes(last.key) \cup {last.t + last.wait} :
              t >= last.t + last.wait => can_send_message(user_messages, last.key, t)
    /\ \A k \in Keys :
          \A t \in LaterTimes(k) :
              t >= now + time_until_next_allowed(user_messages, k, now)
                  => can_send_message(user_messages, k, t)

\* A positive wait has just been returned that ends within the clock's range.
C18_Witness ==
    /\ last.op = "time_until"
    /\ last.wait > 0
    /\ now + last.wait <= MaxTime
    /\ ~can_send_message(user_messages, last.key, now + last.wait - 1)

\* ---------------------------------------------------------------- C19
\* C19: with max_requests >= 1 and one caller, no deque is longer than
\* max_requests, expired timestamps not yet dropped included.
C19_LengthAtMostMax ==
    max_requests >= 1 =>
        \A k \in DOMAIN user_messages : Len(user_messages[k]) <= max_requests

\* A deque of max_requests timestamps whose oldest has expired and not been dropped.
C19_Witness ==
    /\ max_requests >= 2
    /\ \E k \in DOMAIN user_messages :
          /\ Len(user_messages[k]) = max_requests
          /\ now - Head(user_messages[k]) >= window_size

\* ---------------------------------------------------------------- C20
\* C20: with max_requests >= 1, for every user at the current and every later
\* clock reading, the deque left by the cleanup never has max_requests or more
\* timestamps with the oldest one window_size old, and can_send_message
\* returns true exactly when that deque has fewer than max_requests timestamps.
C20_OldestBranchNeverTrue ==
    max_requests >= 1 =>
        \A k \in Keys : \A t \in LaterTimes(k) :
            LET m == cleanup_window(user_messages, k, t)
            IN  /\ (k \in DOMAIN m /\ Len(m[k]) >= max_requests)
                      => t - Head(m[k]) < window_size
                /\ can_send_message(user_messages, k, t) <=> Len(Held(m, k)) < max_requests

\* can_send_message has just refused on a full window some time after its
\* oldest timestamp.
C20_Witness ==
    /\ max_requests >= 2
    /\ last.op = "can_send" /\ ~last.ret
    /\ Len(After) = max_requests
    /\ now > Head(After)

====
